---- MODULE Spec2Model ----
(***************************************************************************)
(* A model of DesktopIconToggleLite (Python): the hidden coordinator       *)
(* window, its message handlers, the mode / hotkey / hook state, the tray   *)
(* icon, and a second process (command line or second launch) that finds    *)
(* the coordinator window and posts to it.                                  *)
(*                                                                          *)
(* A handler runs to completion in one action.  The program state is read   *)
(* into a record (Cur), the handler is an operator from record to record    *)
(* that follows the Python statement by statement, exceptions included      *)
(* (field exc), and the result is written back (Commit).  Every OS call a   *)
(* handler makes is appended to log, which is reset when a handler starts.  *)
(* What the OS answers (a window found or not, a call failing) is drawn     *)
(* per handler from Envs.  A modal MessageBoxW is one log entry: the nested *)
(* message loop it runs is not modelled.                                    *)
(***************************************************************************)
EXTENDS Integers, Sequences, FiniteSets, TLC

\* ------------------------------------------------------------------ bounds
MaxQueue == 1
MaxCount == 2
MaxTime == 4
MaxCoord == 2
MaxHwnd == 2
MaxWindows == 3
MaxWords == 3
MaxDelta == 11
MaxKeys == 2

\* ------------------------------------------------------- winapi constants
MOD_ALT == 1
MOD_CONTROL == 2
MOD_SHIFT == 4
MOD_WIN == 8

\* ------------------------------------------------------------- hotkey.py
\* A text is a sequence of one-character strings.
LowerLetters == <<"a","b","c","d","e","f","g","h","i","j","k","l","m",
                  "n","o","p","q","r","s","t","u","v","w","x","y","z">>
UpperLetters == <<"A","B","C","D","E","F","G","H","I","J","K","L","M",
                  "N","O","P","Q","R","S","T","U","V","W","X","Y","Z">>
Digits == <<"0","1","2","3","4","5","6","7","8","9">>

IndexIn(c, seq) == IF \E i \in DOMAIN seq : seq[i] = c
                   THEN CHOOSE i \in DOMAIN seq : seq[i] = c
                   ELSE 0

\* str.upper(), character by character
UpperChar(c) == IF IndexIn(c, LowerLetters) > 0
                THEN UpperLetters[IndexIn(c, LowerLetters)]
                ELSE c
Upper(t) == [i \in DOMAIN t |-> UpperChar(t[i])]

\* str.replace("-", "+")
ReplaceDash(t) == [i \in DOMAIN t |-> IF t[i] = "-" THEN "+" ELSE t[i]]

\* str.strip(): whitespace removed at both ends
RECURSIVE LStrip(_)
LStrip(t) == IF t # <<>> /\ Head(t) = " " THEN LStrip(Tail(t)) ELSE t
RECURSIVE RStrip(_)
RStrip(t) == IF t # <<>> /\ t[Len(t)] = " "
             THEN RStrip(SubSeq(t, 1, Len(t) - 1)) ELSE t
Strip(t) == RStrip(LStrip(t))

\* str.split("+"): the pieces between the separators, empty ones included
RECURSIVE SplitPlus(_, _)
SplitPlus(t, cur) ==
    IF t = <<>> THEN <<cur>>
    ELSE IF Head(t) = "+" THEN <<cur>> \o SplitPlus(Tail(t), <<>>)
    ELSE SplitPlus(Tail(t), Append(cur, Head(t)))

\* [p.strip() for p in text.replace("-", "+").split("+") if p.strip()]
RECURSIVE StripParts(_)
StripParts(ps) ==
    IF ps = <<>> THEN <<>>
    ELSE IF Strip(Head(ps)) = <<>> THEN StripParts(Tail(ps))
    ELSE <<Strip(Head(ps))>> \o StripParts(Tail(ps))
Parts(text) == StripParts(SplitPlus(ReplaceDash(text), <<>>))

\* _MOD_MAP
ModOf(u) ==
    CASE u = <<"C","T","R","L">> -> MOD_CONTROL
      [] u = <<"A","L","T">> -> MOD_ALT
      [] u = <<"S","H","I","F","T">> -> MOD_SHIFT
      [] u = <<"W","I","N">> -> MOD_WIN
      [] OTHER -> 0

\* _EXTRA_KEYS
ExtraKeyOf(u) ==
    CASE u = <<"S","P","A","C","E">> -> 32
      [] u = <<"T","A","B">> -> 9
      [] u = <<"E","S","C","A","P","E">> -> 27
      [] u = <<"E","N","T","E","R">> -> 13
      [] u = <<"H","O","M","E">> -> 36
      [] u = <<"E","N","D">> -> 35
      [] u = <<"I","N","S","E","R","T">> -> 45
      [] u = <<"D","E","L","E","T","E">> -> 46
      [] u = <<"U","P">> -> 38
      [] u = <<"D","O","W","N">> -> 40
      [] u = <<"L","E","F","T">> -> 37
      [] u = <<"R","I","G","H","T">> -> 39
      [] OTHER -> 0

\* f"F{i}" for i in 1..24 -> 0x6F + i; 0 when u is no such name
FKeyOf(u) ==
    IF Len(u) = 2 /\ u[1] = "F" /\ IndexIn(u[2], Digits) > 1
    THEN 111 + (IndexIn(u[2], Digits) - 1)
    ELSE IF Len(u) = 3 /\ u[1] = "F" /\ IndexIn(u[2], Digits) \in {2, 3}
            /\ IndexIn(u[3], Digits) > 0
            /\ 10 * (IndexIn(u[2], Digits) - 1) + (IndexIn(u[3], Digits) - 1) <= 24
    THEN 111 + 10 * (IndexIn(u[2], Digits) - 1) + (IndexIn(u[3], Digits) - 1)
    ELSE 0

\* _KEY_MAP: the virtual-key code of an upper-cased token, 0 when it has none
KeyOf(u) ==
    IF FKeyOf(u) # 0 THEN FKeyOf(u)
    ELSE IF Len(u) = 1 /\ IndexIn(u[1], UpperLetters) > 0
    THEN 64 + IndexIn(u[1], UpperLetters)
    ELSE IF Len(u) = 1 /\ IndexIn(u[1], Digits) > 0
    THEN 48 + (IndexIn(u[1], Digits) - 1)
    ELSE ExtraKeyOf(u)

\* an assignment in place of the |=: the last modifier replaces the others
BitOr_overwrite(m, bit) == bit

\* modifiers |= bit, for a one-bit value
BitOr(m, bit) == IF (m \div bit) % 2 = 1 THEN m ELSE m + bit

\* The loop of parse_hotkey over the parts: acc is [modifiers, main_key, err,
\* carried]; carried is the text the raised error's message holds.
RECURSIVE ParseLoop(_, _)
ParseLoop(ps, acc) ==
    IF ps = <<>> \/ acc.err # "none" THEN acc
    ELSE LET upper == Upper(Head(ps)) IN
         IF ModOf(upper) # 0
         THEN ParseLoop(Tail(ps), [acc EXCEPT !.modifiers = BitOr(@, ModOf(upper))])
         ELSE IF acc.main_key # 0
         THEN [acc EXCEPT !.err = "one_main_key_only"]
         ELSE IF KeyOf(upper) = 0
         THEN [acc EXCEPT !.err = "unknown_key", !.carried = Head(ps)]
         ELSE ParseLoop(Tail(ps), [acc EXCEPT !.main_key = KeyOf(upper)])

\* a HotkeyParseError: its message (one per raise statement) and the text
\* formatted into the message; no Hotkey is returned
ParseError(err, carried) ==
    [ok |-> FALSE, err |-> err, carried |-> carried, modifiers |-> 0, vk |-> 0, raw |-> <<>>]

\* parse_hotkey(text): [ok, err, carried, modifiers, vk, raw]
parse_hotkey(text) ==
    IF text = <<>> THEN ParseError("empty", <<>>)
    ELSE IF Parts(text) = <<>> THEN ParseError("missing_key", <<>>)
    ELSE LET r == ParseLoop(Parts(text), [modifiers |-> 0, main_key |-> 0, err |-> "none",
                                          carried |-> <<>>]) IN
         IF r.err # "none" THEN ParseError(r.err, r.carried)
         ELSE IF r.main_key = 0 THEN ParseError("no_main_key", <<>>)
         ELSE [ok |-> TRUE, err |-> "none", carried |-> <<>>, modifiers |-> r.modifiers,
               vk |-> r.main_key, raw |-> text]

\* ------------------------------------------------------ message numbers
WM_DESTROY == 2
WM_COMMAND == 273
WM_HOTKEY == 786
WM_LBUTTONUP == 514
WM_LBUTTONDBLCLK == 515
WM_RBUTTONUP == 517
WM_APP == 32768
WM_TRAYICON == WM_APP + 1
WM_USER_TOGGLE == WM_APP + 2

\* RegisterWindowMessageW gives each name one system-wide number in
\* 0xC000..0xFFFF, the same in every process that registers the name.
RegisteredBase == 49152
register_window_message(name) ==
    CASE name = "DesktopIconToggleLite.Python.Toggle" -> RegisteredBase + 1
      [] name = "DesktopIconToggleLite.Python.Exit" -> RegisteredBase + 2
      [] OTHER -> RegisteredBase + 3

\* app.py, DesktopIconToggleApp.__init__
ToggleMsgId == register_window_message("DesktopIconToggleLite.Python.Toggle")
ExitMsgId == register_window_message("DesktopIconToggleLite.Python.Exit")

\* class MenuId(IntEnum): TOGGLE = IDM_TRAY_FIRST, then auto()
IDM_TRAY_FIRST == 1000
MenuTOGGLE == IDM_TRAY_FIRST
MenuGUIDE == IDM_TRAY_FIRST + 1
MenuMODE_HOTKEY == IDM_TRAY_FIRST + 2
MenuMODE_DBL == IDM_TRAY_FIRST + 3
MenuTOGGLE_TOAST == IDM_TRAY_FIRST + 4
MenuAUTO_START == IDM_TRAY_FIRST + 5
MenuCHECK_UPDATE == IDM_TRAY_FIRST + 6
MenuRESET == IDM_TRAY_FIRST + 7
MenuOPEN_CONFIG == IDM_TRAY_FIRST + 8
MenuEXIT == IDM_TRAY_FIRST + 9

Message(m, w, l) == [msg |-> m, wparam |-> w, lparam |-> l]
NoMessage == Message(0, 0, 0)

\* ------------------------------------------------------------- config.py
DefaultHotkeyText == <<"C","t","r","l","+","A","l","t","+","F","1">>
DefaultTolerance == 3
MaxTolerance == 64

\* Config(): the dataclass defaults
DefaultConfig ==
    [mode |-> "Hotkey",
     hotkey |-> DefaultHotkeyText,
     suppress_in_fullscreen |-> TRUE,
     show_tray_icon |-> TRUE,
     fullscreen_tolerance |-> DefaultTolerance,
     show_toggle_toast |-> TRUE,
     show_first_run_guide |-> TRUE]

Clamp(lo, x, hi) == IF x < lo THEN lo ELSE IF x > hi THEN hi ELSE x

\* Config.normalize
normalize(cfg) ==
    [cfg EXCEPT
       !.mode = IF @ \in {"Hotkey", "DesktopDoubleClick"} THEN @ ELSE "Hotkey",
       !.hotkey = IF Strip(@) = <<>> THEN DefaultHotkeyText ELSE Strip(@),
       !.fullscreen_tolerance = Clamp(0, @, MaxTolerance)]

\* The configurations the coordinator is started with.
OtherHotkeyText == <<"c","t","r","l","-","s","h","i","f","t","-","d">>
BadHotkeyText == <<"C","t","r","l","+","A","l","t">>
HotkeyTexts == {DefaultHotkeyText, OtherHotkeyText, BadHotkeyText}

StoredConfig(m, h, sup, tray, toast, guide) ==
    [mode |-> m, hotkey |-> h, suppress_in_fullscreen |-> sup, show_tray_icon |-> tray,
     fullscreen_tolerance |-> DefaultTolerance, show_toggle_toast |-> toast,
     show_first_run_guide |-> guide]

\* The stored objects: the first run, and settings a user has changed.  The
\* mode and the toast setting also change while the program runs.
StoredConfigs ==
    {StoredConfig("Hotkey", DefaultHotkeyText, TRUE, TRUE, TRUE, TRUE),
     StoredConfig("DesktopDoubleClick", DefaultHotkeyText, TRUE, TRUE, TRUE, FALSE),
     StoredConfig("DesktopDoubleClick", OtherHotkeyText, FALSE, TRUE, FALSE, FALSE),
     StoredConfig("Hotkey", BadHotkeyText, TRUE, FALSE, TRUE, FALSE),
     StoredConfig("Tray", OtherHotkeyText, TRUE, TRUE, FALSE, FALSE)}

\* Config.load: the defaults updated from the stored object, then normalized
LoadedConfigs == {normalize(c) : c \in StoredConfigs}

\* ------------------------------------------- what the OS answers a handler
Rect(l, t, r, b) == [left |-> l, top |-> t, right |-> r, bottom |-> b]

\* The foreground window as _is_fullscreen_foreground queries it.
FgNone ==
    [hwnd |-> FALSE, rectOk |-> FALSE, rect |-> Rect(0, 0, 0, 0), monitor |-> FALSE,
     infoOk |-> FALSE, rcMonitor |-> Rect(0, 0, 0, 0), rcWork |-> Rect(0, 0, 0, 0)]
FgFullscreen ==
    [hwnd |-> TRUE, rectOk |-> TRUE, rect |-> Rect(0, 0, 100, 60), monitor |-> TRUE,
     infoOk |-> TRUE, rcMonitor |-> Rect(0, 0, 100, 60), rcWork |-> Rect(0, 0, 100, 56)]
FgWindowed ==
    [hwnd |-> TRUE, rectOk |-> TRUE, rect |-> Rect(5, 5, 95, 55), monitor |-> TRUE,
     infoOk |-> TRUE, rcMonitor |-> Rect(0, 0, 100, 60), rcWork |-> Rect(0, 0, 100, 56)]
FgScenes == {FgNone, FgFullscreen, FgWindowed}

\* All goes well: every window is found, every call succeeds.
CalmEnv ==
    [host |-> "Progman", listview |-> TRUE, fg |-> FgWindowed, trayOk |-> TRUE,
     hotkeyFree |-> TRUE, hookOk |-> TRUE, saveOk |-> TRUE, classOk |-> TRUE,
     windowOk |-> TRUE, yes |-> TRUE]

\* What a toggle request can meet.
ToggleEnvs ==
    {[CalmEnv EXCEPT !.host = h, !.fg = f] :
        h \in {"Progman", "WorkerW", "none"}, f \in {FgFullscreen, FgWindowed}}
    \cup {[CalmEnv EXCEPT !.trayOk = FALSE], [CalmEnv EXCEPT !.listview = FALSE],
          [CalmEnv EXCEPT !.fg = FgNone]}
\* What a configuration application can meet: all well, or one thing wrong.
ConfigEnvs ==
    {CalmEnv, [CalmEnv EXCEPT !.trayOk = FALSE], [CalmEnv EXCEPT !.hotkeyFree = FALSE],
     [CalmEnv EXCEPT !.hookOk = FALSE], [CalmEnv EXCEPT !.saveOk = FALSE],
     [CalmEnv EXCEPT !.yes = FALSE]}
\* What the end of the program can meet.
ExitEnvs == {CalmEnv, [CalmEnv EXCEPT !.trayOk = FALSE]}
\* What the start of run() can meet.
StartEnvs ==
    {[CalmEnv EXCEPT !.classOk = c, !.windowOk = w] : c \in BOOLEAN, w \in BOOLEAN}
Envs == ToggleEnvs \cup ConfigEnvs \cup ExitEnvs \cup StartEnvs

\* ------------------------------------------------------------ the state
VARIABLES
    pc,         \* where the coordinator process is in main() / run()
    app,        \* the DesktopIconToggleApp object's fields
    os,         \* what the OS holds: window, class, hotkey table, hook chain, tray, icons, mutex
    queue,      \* messages posted to the coordinator window, oldest first
    handled,    \* the message the handler that ran last was given
    log,        \* the OS calls that handler made, in order
    excess,     \* toggle commands the shell has received, less the toggle requests
                \* that were not suppressed and found the host window (within MaxCount)
    failed,     \* some OS call has failed since the process started
    env,        \* the foreground window and the host window the last handler met
    cli,        \* the second process: its arguments, where it is, how it ended
    clicks,     \* the DesktopDoubleClickHook object's last sample
    probe       \* a function examined on its own: its name, arguments and result

vars == <<pc, app, os, queue, handled, log, excess, failed, env, cli, clicks, probe>>

NoHotkey == [modifiers |-> 0, vk |-> 0, raw |-> <<>>]

\* The record a handler works on.
Cur == [app |-> app, os |-> os, log |-> <<>>, exc |-> "none", failed |-> failed]

Call(s, name) == [s EXCEPT !.log = Append(@, name)]
\* An OS call that fails; with an errcheck (or an explicit raise) WinAPIError is raised.
Raise(s, name) == [s EXCEPT !.log = Append(@, name), !.exc = "WinAPIError", !.failed = TRUE]
Catch(s) == [s EXCEPT !.exc = "none"]
\* the next statement runs unless an exception is on its way up
Then(s, F(_)) == IF s.exc = "none" THEN F(s) ELSE s
Has(l, name) == \E i \in DOMAIN l : l[i] = name
RECURSIVE CountOf(_, _)
CountOf(l, name) ==
    IF l = <<>> THEN 0
    ELSE (IF Head(l) = name THEN 1 ELSE 0) + CountOf(Tail(l), name)
Index(l, name) == IF Has(l, name) THEN CHOOSE i \in DOMAIN l : l[i] = name /\ \A j \in 1..(i-1) : l[j] # name ELSE 0

\* winapi.errcheck_bool: a zero result raises
errcheck_bool(result) == [raised |-> result = 0, value |-> result]

\* ----------------------------------------------------------- app.py: tray
\* _tray_tip: the status text, from the cached visibility
_tray_tip(s) == IF s.app.icons_visible THEN "shown" ELSE "hidden"

\* Shell_NotifyIconW(NIM_MODIFY, data): the shell takes the tip over, and shows
\* the balloon when the data carries NIF_INFO; errcheck_bool raises on failure.
NotifyModify(s, e) ==
    IF ~e.trayOk THEN Raise(s, "NIM_MODIFY:failed")
    ELSE LET s1 == [Call(s, "NIM_MODIFY") EXCEPT !.os.tray = s.app.tray_tip]
         IN IF s.app.tray_info THEN Call(s1, "balloon") ELSE s1

\* _update_tray_tip
_update_tray_tip(s, e) ==
    IF ~s.app.tray_visible \/ s.app.tray_tip = "none" THEN s
    ELSE NotifyModify([s EXCEPT !.app.tray_tip = _tray_tip(s)], e)

\* _remove_tray_icon
_remove_tray_icon(s, e) ==
    IF s.app.tray_visible /\ s.app.tray_tip # "none"
    THEN IF ~e.trayOk THEN Raise(s, "NIM_DELETE:failed")
         ELSE [Call(s, "NIM_DELETE") EXCEPT !.os.tray = "none",
                                            !.app.tray_visible = FALSE,
                                            !.app.tray_tip = "none",
                                            !.app.tray_info = FALSE]
    ELSE s

\* _ensure_tray_icon
_ensure_tray_icon(s, e) ==
    IF ~s.app.hwnd THEN s
    ELSE IF s.app.cfg.show_tray_icon
    THEN IF ~s.app.tray_visible
         THEN IF ~e.trayOk THEN Raise(s, "NIM_ADD:failed")
              ELSE [Call(s, "NIM_ADD") EXCEPT !.os.tray = _tray_tip(s),
                                              !.app.tray_tip = _tray_tip(s),
                                              !.app.tray_info = FALSE,
                                              !.app.tray_visible = TRUE]
         ELSE _update_tray_tip(s, e)
    ELSE IF s.app.tray_visible THEN _remove_tray_icon(s, e)
    ELSE s

\* _show_balloon: NIF_INFO is set for the call and cleared after it returns
_show_balloon(s, e) ==
    IF ~s.app.tray_visible \/ s.app.tray_tip = "none" THEN s
    ELSE LET r == NotifyModify([s EXCEPT !.app.tray_info = TRUE], e)
         IN IF r.exc = "none" THEN [r EXCEPT !.app.tray_info = FALSE] ELSE r

\* _show_message: a modal MessageBoxW
_show_message(s, what) == Call(s, what)

\* --------------------------------------------------------- app.py: toggle
\* a toggle that looks for Progman only and never falls back to WorkerW
toggle_desktop_icons_progman_only(s, e) ==
    IF e.host = "Progman"
    THEN [Call(s, "SendMessage:0x7402") EXCEPT !.os.icons_shown = ~@]
    ELSE Raise(s, "FindWindowW:failed")

\* winapi.toggle_desktop_icons: the shell toggles the icon list on WM_COMMAND 0x7402
toggle_desktop_icons(s, e) ==
    IF e.host = "Progman" \/ e.host = "WorkerW"
    THEN [Call(s, "SendMessage:0x7402") EXCEPT !.os.icons_shown = ~@]
    ELSE Raise(s, "FindWindowW:failed")

\* _detect_icon_visibility: IsWindowVisible carries errcheck_bool
_detect_icon_visibility(o, e) ==
    IF ~e.listview THEN TRUE
    ELSE LET r == errcheck_bool(IF o.icons_shown THEN 1 ELSE 0)
         IN IF r.raised THEN TRUE ELSE r.value # 0

Abs(x) == IF x < 0 THEN -x ELSE x

\* a guard satisfied when one of the two sizes is within the tolerance
_is_fullscreen_foreground_either_axis(tolerance, fg) ==
    IF ~fg.hwnd \/ ~fg.rectOk \/ ~fg.monitor \/ ~fg.infoOk THEN FALSE
    ELSE \/ Abs((fg.rect.right - fg.rect.left) - (fg.rcMonitor.right - fg.rcMonitor.left))
               <= tolerance
         \/ Abs((fg.rect.bottom - fg.rect.top) - (fg.rcMonitor.bottom - fg.rcMonitor.top))
               <= tolerance

\* _is_fullscreen_foreground
_is_fullscreen_foreground(tolerance, fg) ==
    IF ~fg.hwnd THEN FALSE
    ELSE IF ~fg.rectOk THEN FALSE
    ELSE IF ~fg.monitor THEN FALSE
    ELSE IF ~fg.infoOk THEN FALSE
    ELSE LET width == fg.rect.right - fg.rect.left
             height == fg.rect.bottom - fg.rect.top
             mwidth == fg.rcMonitor.right - fg.rcMonitor.left
             mheight == fg.rcMonitor.bottom - fg.rcMonitor.top
         IN Abs(width - mwidth) <= tolerance /\ Abs(height - mheight) <= tolerance

\* a guard that forgets the suppress_in_fullscreen setting's mode restriction
\* and looks at the setting of the other mode
Suppressed_in_hotkey_mode(cfg, fg) ==
    /\ cfg.mode = "Hotkey"
    /\ cfg.suppress_in_fullscreen
    /\ _is_fullscreen_foreground(cfg.fullscreen_tolerance, fg)

\* the condition of the first statement of _toggle_request
Suppressed(cfg, fg) ==
    /\ cfg.mode = "DesktopDoubleClick"
    /\ cfg.suppress_in_fullscreen
    /\ _is_fullscreen_foreground(cfg.fullscreen_tolerance, fg)

\* the try block of _toggle_request
ToggleBody(s, e) ==
    LET t1 == toggle_desktop_icons(s, e)
        t2 == Then(t1, LAMBDA x : [x EXCEPT !.app.icons_visible = _detect_icon_visibility(x.os, e)])
        t3 == Then(t2, LAMBDA x : _update_tray_tip(x, e))
    IN Then(t3, LAMBDA x : IF x.app.cfg.show_toggle_toast THEN _show_balloon(x, e) ELSE x)

\* a request that swallows the failure without telling the user
_toggle_request_silent(s, e) ==
    LET s0 == Call(s, "_toggle_request") IN
    IF Suppressed(s0.app.cfg, e.fg) THEN Call(s0, "ignored:fullscreen")
    ELSE Catch(ToggleBody(s0, e))

\* _toggle_request
_toggle_request(s, e) ==
    LET s0 == Call(s, "_toggle_request") IN
    IF Suppressed(s0.app.cfg, e.fg) THEN Call(s0, "ignored:fullscreen")
    ELSE LET r == ToggleBody(s0, e)
         IN IF r.exc = "WinAPIError"
            THEN _show_message(Catch(r), "MessageBox:toggle_failed")
            ELSE r

\* ------------------------------------------------ app.py: hotkey and hook
Combo(h) == [modifiers |-> h.modifiers, vk |-> h.vk]

\* a registration that leaves the old binding in place
_register_hotkey_keeps_old(s0, e) ==
    IF ~s0.app.hwnd THEN s0
    ELSE LET s == Call(s0, "_register_hotkey")
             p == parse_hotkey(s.app.cfg.hotkey) IN
    IF ~p.ok THEN _show_message(s, "MessageBox:hotkey_parse_failed")
    ELSE LET hotkey == [modifiers |-> p.modifiers, vk |-> p.vk, raw |-> p.raw]
         IN IF e.hotkeyFree /\ Combo(hotkey) \notin s.os.hotkeys
            THEN [Call(s, "RegisterHotKey") EXCEPT
                     !.os.hotkeys = @ \cup {Combo(hotkey)},
                     !.app.hotkey = hotkey]
            ELSE _show_message(Catch(Raise(s, "RegisterHotKey:failed")),
                               "MessageBox:hotkey_register_failed")

\* a registration that lets the WinAPIError of RegisterHotKey out
_register_hotkey_uncaught(s0, e) ==
    IF ~s0.app.hwnd THEN s0
    ELSE LET s == Call(s0, "_register_hotkey")
             p == parse_hotkey(s.app.cfg.hotkey) IN
    IF ~p.ok THEN _show_message(s, "MessageBox:hotkey_parse_failed")
    ELSE LET hotkey == [modifiers |-> p.modifiers, vk |-> p.vk, raw |-> p.raw]
             s1 == IF s.app.hotkey # NoHotkey
                   THEN IF s.os.hotkeys # {}
                        THEN [Call(s, "UnregisterHotKey") EXCEPT !.os.hotkeys = {}]
                        ELSE Catch(Raise(s, "UnregisterHotKey:failed"))
                   ELSE s
         IN IF e.hotkeyFree /\ Combo(hotkey) \notin s1.os.hotkeys
            THEN [Call(s1, "RegisterHotKey") EXCEPT
                     !.os.hotkeys = @ \cup {Combo(hotkey)},
                     !.app.hotkey = hotkey]
            ELSE Raise(s1, "RegisterHotKey:failed")

\* a registration that gives up the old binding before it reads the text
_register_hotkey_unregister_first(s0, e) ==
    IF ~s0.app.hwnd THEN s0
    ELSE LET s == Call(s0, "_register_hotkey")
             s1 == IF s.os.hotkeys # {}
                   THEN [Call(s, "UnregisterHotKey") EXCEPT !.os.hotkeys = {},
                                                            !.app.hotkey = NoHotkey]
                   ELSE Catch(Raise(s, "UnregisterHotKey:failed"))
             p == parse_hotkey(s.app.cfg.hotkey) IN
    IF ~p.ok THEN _show_message(s1, "MessageBox:hotkey_parse_failed")
    ELSE LET hotkey == [modifiers |-> p.modifiers, vk |-> p.vk, raw |-> p.raw]
         IN IF e.hotkeyFree
            THEN [Call(s1, "RegisterHotKey") EXCEPT
                     !.os.hotkeys = @ \cup {Combo(hotkey)},
                     !.app.hotkey = hotkey]
            ELSE _show_message(Catch(Raise(s1, "RegisterHotKey:failed")),
                               "MessageBox:hotkey_register_failed")

\* _register_hotkey.  UnregisterHotKey fails when nothing is registered under
\* the id; RegisterHotKey fails when the combination is taken, by another
\* program or by this window.  Both carry errcheck_bool.
_register_hotkey(s0, e) ==
    IF ~s0.app.hwnd THEN s0
    ELSE LET s == Call(s0, "_register_hotkey")
             p == parse_hotkey(s.app.cfg.hotkey) IN
    IF ~p.ok THEN _show_message(s, "MessageBox:hotkey_parse_failed")
    ELSE LET hotkey == [modifiers |-> p.modifiers, vk |-> p.vk, raw |-> p.raw]
             s1 == IF s.app.hotkey # NoHotkey
                   THEN IF s.os.hotkeys # {}
                        THEN [Call(s, "UnregisterHotKey") EXCEPT !.os.hotkeys = {}]
                        ELSE Catch(Raise(s, "UnregisterHotKey:failed"))
                   ELSE s
         IN IF e.hotkeyFree /\ Combo(hotkey) \notin s1.os.hotkeys
            THEN [Call(s1, "RegisterHotKey") EXCEPT
                     !.os.hotkeys = @ \cup {Combo(hotkey)},
                     !.app.hotkey = hotkey]
            ELSE _show_message(Catch(Raise(s1, "RegisterHotKey:failed")),
                               "MessageBox:hotkey_register_failed")

\* a start without the guard on the handle
hook_start_unguarded(s, e) ==
    IF ~e.hookOk THEN Raise(s, "SetWindowsHookExW:failed")
    ELSE [Call(s, "SetWindowsHookExW") EXCEPT !.os.hooks = @ + 1,
                                              !.app.hook_handle = TRUE]

\* DesktopDoubleClickHook.start
hook_start(s, e) ==
    IF s.app.hook_handle THEN s
    ELSE IF ~e.hookOk THEN Raise(s, "SetWindowsHookExW:failed")
    ELSE [Call(s, "SetWindowsHookExW") EXCEPT !.os.hooks = @ + 1,
                                              !.app.hook_handle = TRUE]

\* DesktopDoubleClickHook.stop
hook_stop(s) ==
    IF ~s.app.hook_handle THEN s
    ELSE [Call(s, "UnhookWindowsHookEx") EXCEPT !.os.hooks = @ - 1,
                                                !.app.hook_handle = FALSE]

\* _stop_hook
_stop_hook(s) == Catch(hook_stop(s))

\* _update_hook_state
_update_hook_state(s, e) ==
    IF s.app.cfg.mode = "DesktopDoubleClick"
    THEN LET r == hook_start(s, e)
         IN IF r.exc = "WinAPIError"
            THEN _show_message(Catch(r), "MessageBox:hook_install_failed")
            ELSE r
    ELSE _stop_hook(s)

\* _persist_config: Config.save, any exception reported, then the tray refreshed
_persist_config(s, e) ==
    _ensure_tray_icon(
        IF e.saveOk THEN Call(s, "save") ELSE _show_message(s, "MessageBox:save_failed"),
        e)

\* _show_guide
_show_guide(s, e, force) ==
    LET s1 == Call(s, "MessageBox:guide") IN
    IF force THEN _persist_config([s1 EXCEPT !.app.cfg.show_first_run_guide = FALSE], e)
    ELSE s1

\* _apply_config
_apply_config(s, e, initial) ==
    LET s1 == [s EXCEPT !.app.cfg = normalize(@)]
        s2 == _ensure_tray_icon(s1, e)
        s3 == Then(s2, LAMBDA x : _register_hotkey(x, e))
        s4 == Then(s3, LAMBDA x : _update_hook_state(x, e))
    IN Then(s4, LAMBDA x :
            IF initial /\ x.app.cfg.show_first_run_guide
            THEN _persist_config(
                    [_show_guide(x, e, FALSE) EXCEPT !.app.cfg.show_first_run_guide = FALSE], e)
            ELSE x)

\* _reset_config: the user answers the MessageBoxW with yes (6) or not
_reset_config(s, e) ==
    LET s0 == Call(s, "MessageBox:reset?") IN
    IF ~e.yes THEN s0
    ELSE LET s1 == [s0 EXCEPT !.app.cfg = normalize(DefaultConfig)]
             s2 == _persist_config(s1, e)
             s3 == Then(s2, LAMBDA x : _apply_config(x, e, FALSE))
         IN Then(s3, LAMBDA x : _show_message(x, "MessageBox:reset_done"))

\* ------------------------------------------- app.py: window procedure
\* the WM_DESTROY branch of _wndproc
OnDestroy(s, e) ==
    LET s1 == _remove_tray_icon(s, e)
        s2 == Then(s1, LAMBDA x : _stop_hook(x))
    IN Then(s2, LAMBDA x : [Call(x, "PostQuitMessage") EXCEPT !.os.quit = TRUE])

\* An exception that leaves a ctypes callback is printed and dropped there.
CallbackBoundary(s) ==
    IF s.exc = "none" THEN s ELSE Call(Catch(s), "callback:exception")

\* user32.DestroyWindow (errcheck_bool): the window procedure gets WM_DESTROY
\* before the window is gone
DestroyWindow(s, e) ==
    IF ~s.os.window THEN Raise(s, "DestroyWindow:failed")
    ELSE [CallbackBoundary(OnDestroy(Call(s, "DestroyWindow"), e)) EXCEPT !.os.window = FALSE]

\* quit
quit(s, e) ==
    LET s1 == [s EXCEPT !.app.running = FALSE] IN
    IF s1.app.hwnd THEN DestroyWindow(s1, e) ELSE s1

\* _handle_tray; the menu of _show_context_menu is tracked with TPM_RETURNCMD
_handle_tray(s, e, lparam) ==
    IF lparam = WM_LBUTTONUP \/ lparam = WM_LBUTTONDBLCLK THEN _toggle_request(s, e)
    ELSE IF lparam = WM_RBUTTONUP
    THEN (IF ~s.app.hwnd THEN s ELSE Call(s, "TrackPopupMenu"))
    ELSE s

\* _handle_command
_handle_command(s, e, ident) ==
    IF ident = MenuTOGGLE THEN _toggle_request(s, e)
    ELSE IF ident = MenuGUIDE THEN _show_guide(s, e, TRUE)
    ELSE IF ident = MenuMODE_HOTKEY
    THEN Then(_persist_config([s EXCEPT !.app.cfg.mode = "Hotkey"], e),
              LAMBDA x : _apply_config(x, e, FALSE))
    ELSE IF ident = MenuMODE_DBL
    THEN Then(_persist_config([s EXCEPT !.app.cfg.mode = "DesktopDoubleClick"], e),
              LAMBDA x : _apply_config(x, e, FALSE))
    ELSE IF ident = MenuTOGGLE_TOAST
    THEN _persist_config([s EXCEPT !.app.cfg.show_toggle_toast = ~@], e)
    ELSE IF ident = MenuRESET THEN _reset_config(s, e)
    ELSE IF ident = MenuEXIT THEN quit(s, e)
    ELSE s

\* _wndproc
_wndproc(s, e, m) ==
    IF m.msg = WM_DESTROY THEN OnDestroy(s, e)
    ELSE IF m.msg = WM_COMMAND THEN _handle_command(s, e, m.wparam % 65536)
    ELSE IF m.msg = WM_HOTKEY THEN _toggle_request(s, e)
    ELSE IF m.msg = WM_TRAYICON THEN _handle_tray(s, e, m.lparam)
    ELSE IF m.msg = ToggleMsgId THEN _toggle_request(s, e)
    ELSE IF m.msg = ExitMsgId THEN quit(s, e)
    ELSE Call(s, "DefWindowProcW")

\* DesktopDoubleClickHook._hook_proc at a left-button-down that is a double
\* click on blank desktop: the trigger is _toggle_request, called in a
\* try / except Exception
HookTrigger(s, e) ==
    LET r == _toggle_request(s, e) IN
    IF r.exc = "none" THEN r ELSE Catch(r)

\* -------------------------------------------------------- app.py: run()
\* winapi.create_mutex: (created, handle); created unless the name exists
create_mutex(o, who) ==
    [created |-> o.mutex = {}, os |-> [o EXCEPT !.mutex = @ \cup {who}]]

\* winapi.release_mutex: ReleaseMutex, CloseHandle
release_mutex(s, who) == [Call(s, "CloseHandle") EXCEPT !.os.mutex = @ \ {who}]

\* the finally block of run()
Finally(s, e) ==
    LET s1 == IF s.app.hwnd THEN Catch(DestroyWindow(Catch(s), e)) ELSE Catch(s)
        s2 == IF s1.app.class_atom
              THEN IF s1.os.class /\ ~s1.os.window
                   THEN [Call(s1, "UnregisterClassW") EXCEPT !.os.class = FALSE]
                   ELSE Catch(Raise(s1, "UnregisterClassW:failed"))
              ELSE s1
        s3 == IF s2.app.mutex_handle THEN release_mutex(s2, "A") ELSE s2
    IN [s3 EXCEPT !.exc = s.exc]

\* how run() ends: 0, or the exception that left the try block
Ended(s) == IF s.exc = "none" THEN "0" ELSE "raised"

\* ------------------------------------------------------------- actions
Seen(e) == [fg |-> e.fg, host |-> e.host, listview |-> e.listview]

\* whether the handler that just ran made a toggle request that was not
\* suppressed and found the desktop host window
Eligible(l, cfg, e) ==
    /\ Has(l, "_toggle_request")
    /\ ~(/\ cfg.mode = "DesktopDoubleClick"
         /\ cfg.suppress_in_fullscreen
         /\ _is_fullscreen_foreground(cfg.fullscreen_tolerance, e.fg))
    /\ e.host # "none"

Commit(r, e, h) ==
    /\ app' = r.app
    /\ os' = r.os
    /\ log' = r.log
    /\ failed' = r.failed
    /\ env' = Seen(e)
    /\ handled' = h
    /\ excess' = Clamp(-MaxCount,
                       excess + CountOf(r.log, "SendMessage:0x7402")
                              - (IF Eligible(r.log, app.cfg, e) THEN 1 ELSE 0),
                       MaxCount)
    /\ queue' = IF ~r.os.window THEN <<>>
                ELSE IF h.src = "message" THEN Tail(queue) ELSE queue

\* DesktopDoubleClickHook.__init__: no sample yet (seen counts the samples taken)
NoSample == [last_time |-> 0, last_point |-> [x |-> 0, y |-> 0], last_hwnd |-> 0, seen |-> 0]

\* no function under examination
NoProbe == [fn |-> "none"]

\* no command-line process: the last one has exited and left nothing behind
NoCli == [pc |-> "idle", argv |-> "none", rc |-> -1, found |-> FALSE, constructed |-> FALSE]

\* what a finished command-line process returned is known until something
\* else happens; a process that still runs stays
CliGone == cli' = IF cli.pc = "notify" THEN cli ELSE NoCli

Handled(src, m) == [src |-> src, msg |-> m.msg, wparam |-> m.wparam, lparam |-> m.lparam]

Init ==
    /\ pc = "new"
    /\ \E c \in LoadedConfigs, shown \in BOOLEAN :
          /\ app = [cfg |-> c, mutex_handle |-> FALSE, hwnd |-> FALSE, class_atom |-> FALSE,
                    tray_visible |-> FALSE, tray_tip |-> "none", tray_info |-> FALSE,
                    hotkey |-> NoHotkey, hook_handle |-> FALSE,
                    icons_visible |-> _detect_icon_visibility([icons_shown |-> shown], CalmEnv),
                    running |-> TRUE, rc |-> "none"]
          /\ os = [window |-> FALSE, class |-> FALSE, hotkeys |-> {}, hooks |-> 0,
                   tray |-> "none", icons_shown |-> shown, mutex |-> {}, quit |-> FALSE]
    /\ queue = <<>>
    /\ handled = Handled("none", NoMessage)
    /\ log = <<>>
    /\ excess = 0
    /\ failed = FALSE
    /\ env = Seen(CalmEnv)
    /\ cli = NoCli
    /\ clicks = NoSample
    /\ probe = NoProbe

\* run(): create_mutex, by the process that comes first
Start ==
    /\ pc = "new"
    /\ LET m == create_mutex(os, "A") IN
       /\ m.created
       /\ Commit([Cur EXCEPT !.os = m.os, !.app.mutex_handle = TRUE], CalmEnv,
                 Handled("start", NoMessage))
    /\ pc' = "mutex"
    /\ CliGone
    /\ UNCHANGED <<clicks, probe>>

\* run(): _register_window_class
RegisterClass ==
    /\ pc = "mutex"
    /\ \E e \in StartEnvs :
         LET r == IF e.classOk
                  THEN [Call(Cur, "RegisterClassExW") EXCEPT !.os.class = TRUE,
                                                             !.app.class_atom = TRUE]
                  ELSE Raise(Cur, "RegisterClassExW:failed")
         IN IF r.exc = "none"
            THEN pc' = "class" /\ Commit(r, e, Handled("start", NoMessage))
            ELSE /\ pc' = "done"
                 /\ Commit([Finally(r, e) EXCEPT !.app.rc = "raised"], e,
                           Handled("finally", NoMessage))
    /\ CliGone
    /\ UNCHANGED <<clicks, probe>>

\* run(): _create_window
CreateWindow ==
    /\ pc = "class"
    /\ \E e \in StartEnvs :
         LET r == IF e.windowOk
                  THEN [Call(Cur, "CreateWindowExW") EXCEPT !.os.window = TRUE,
                                                            !.app.hwnd = TRUE]
                  ELSE Raise(Cur, "CreateWindowExW:failed")
         IN IF r.exc = "none"
            THEN pc' = "window" /\ Commit(r, e, Handled("start", NoMessage))
            ELSE /\ pc' = "done"
                 /\ Commit([Finally(r, e) EXCEPT !.app.rc = "raised"], e,
                           Handled("finally", NoMessage))
    /\ CliGone
    /\ UNCHANGED <<clicks, probe>>

\* run(): _apply_config(initial=True); an exception goes through the finally block
ApplyInitial ==
    /\ pc = "window"
    /\ \E e \in ConfigEnvs :
         LET r == _apply_config(Cur, e, TRUE)
         IN IF r.exc = "none"
            THEN pc' = "loop" /\ Commit(r, e, Handled("start", NoMessage))
            ELSE /\ pc' = "done"
                 /\ Commit([Finally(r, e) EXCEPT !.app.rc = "raised"], e,
                           Handled("finally", NoMessage))
    /\ CliGone
    /\ UNCHANGED <<clicks, probe>>

\* What the OS may answer while a message is handled: a command that applies
\* or saves the configuration meets ConfigEnvs, one that ends the program
\* ExitEnvs, anything else ToggleEnvs.
EnvsFor(m) ==
    IF m.msg = WM_COMMAND /\ m.wparam \in {MenuMODE_HOTKEY, MenuMODE_DBL, MenuTOGGLE_TOAST,
                                           MenuRESET, MenuGUIDE}
    THEN ConfigEnvs
    ELSE IF m.msg = ExitMsgId \/ (m.msg = WM_COMMAND /\ m.wparam = MenuEXIT)
    THEN ExitEnvs
    ELSE ToggleEnvs

\* _message_loop: GetMessageW, DispatchMessageW on the oldest message
Dispatch ==
    /\ pc = "loop"
    /\ app.running
    /\ ~os.quit
    /\ queue # <<>>
    /\ \E e \in EnvsFor(Head(queue)) :
         Commit(CallbackBoundary(_wndproc(Cur, e, Head(queue))), e,
                Handled("message", Head(queue)))
    /\ CliGone
    /\ UNCHANGED pc
    /\ UNCHANGED <<clicks, probe>>

\* the low-level mouse hook is called while the thread waits in GetMessageW
HookDoubleClick ==
    /\ pc = "loop"
    /\ app.running
    /\ os.hooks > 0
    /\ \E e \in ToggleEnvs :
         Commit(HookTrigger(Cur, e), e, Handled("hook", NoMessage))
    /\ CliGone
    /\ UNCHANGED pc
    /\ UNCHANGED <<clicks, probe>>

\* _message_loop ends (the flag is cleared, or GetMessageW met WM_QUIT), then
\* the finally block, then return 0
LoopExit ==
    /\ pc = "loop"
    /\ ~app.running \/ os.quit
    /\ \E e \in ExitEnvs :
         Commit([Finally(Cur, e) EXCEPT !.app.rc = Ended(Cur)], e,
                   Handled("finally", NoMessage))
    /\ pc' = "done"
    /\ CliGone
    /\ UNCHANGED <<clicks, probe>>

\* handled, log and env describe the handler that ran last only until
\* something else happens
Forget ==
    /\ handled' = Handled("none", NoMessage)
    /\ log' = <<>>
    /\ env' = Seen(CalmEnv)

Post(m) == Len(queue) < MaxQueue /\ queue' = Append(queue, m)

\* the user presses the registered hotkey: the OS posts WM_HOTKEY
PressHotkey ==
    /\ os.window /\ os.hotkeys # {}
    /\ Post(Message(WM_HOTKEY, 1, 0))
    /\ Forget
    /\ CliGone
    /\ UNCHANGED <<pc, app, os, excess, failed>>
    /\ UNCHANGED <<clicks, probe>>

\* a WM_COMMAND with a menu identifier reaches the window
MenuCommand ==
    /\ os.window
    /\ \E id \in {MenuTOGGLE, MenuMODE_HOTKEY, MenuMODE_DBL, MenuRESET, MenuEXIT} :
         Post(Message(WM_COMMAND, id, 0))
    /\ Forget
    /\ CliGone
    /\ UNCHANGED <<pc, app, os, excess, failed>>
    /\ UNCHANGED <<clicks, probe>>

\* the user clicks the tray icon: the shell posts the callback message
TrayClick ==
    /\ os.window /\ os.tray # "none"
    /\ \E l \in {WM_LBUTTONUP, WM_LBUTTONDBLCLK, WM_RBUTTONUP} :
         Post(Message(WM_TRAYICON, 1, l))
    /\ Forget
    /\ CliGone
    /\ UNCHANGED <<pc, app, os, excess, failed>>
    /\ UNCHANGED <<clicks, probe>>

\* send_command(cmd): FindWindowW, then PostMessageW of the command's message
send_command(cmd, found) ==
    IF ~found THEN [ok |-> FALSE, post |-> NoMessage]
    ELSE IF cmd = "toggle" THEN [ok |-> TRUE, post |-> Message(WM_USER_TOGGLE, 0, 0)]
    ELSE IF cmd = "exit"
    THEN [ok |-> TRUE,
          post |-> Message(register_window_message("DesktopIconToggleLite.Python.Exit"), 0, 0)]
    ELSE [ok |-> FALSE, post |-> NoMessage]

\* a main that reports success whether or not the command was sent
main_command_always_zero(cmd, found) ==
    LET r == send_command(cmd, found) IN
    [rc |-> 0, post |-> r.post, constructed |-> FALSE]

\* main(argv) with argv[0] in {"toggle", "exit"}
main_command(cmd, found) ==
    LET r == send_command(cmd, found) IN
    [rc |-> IF r.ok THEN 0 ELSE 1, post |-> r.post, constructed |-> FALSE]

\* a second process runs main(["toggle"]) or main(["exit"])
CliCommand ==
    /\ cli.pc = "idle"
    /\ \E cmd \in {"toggle", "exit"} :
         LET r == main_command(cmd, os.window) IN
         /\ cli' = [pc |-> "idle", argv |-> cmd, rc |-> r.rc, found |-> os.window,
                    constructed |-> r.constructed]
         /\ IF r.post # NoMessage THEN Post(r.post) ELSE UNCHANGED queue
    /\ Forget
    /\ UNCHANGED <<pc, app, os, excess, failed>>
    /\ UNCHANGED <<clicks, probe>>

\* a second process runs main([]) while the named mutex exists: it builds the
\* application object and run() finds the mutex there
CliLaunch ==
    /\ cli.pc = "idle"
    /\ os.mutex # {}
    /\ LET m == create_mutex(os, "L") IN
       /\ ~m.created
       /\ os' = m.os
       /\ cli' = [pc |-> "notify", argv |-> "", rc |-> -1, found |-> FALSE,
                  constructed |-> TRUE]
    /\ Forget
    /\ UNCHANGED <<pc, app, queue, excess, failed>>
    /\ UNCHANGED <<clicks, probe>>

\* _notify_existing: FindWindowW, PostMessageW(hwnd, self._toggle_msg)
_notify_existing(found) == IF found THEN Message(ToggleMsgId, 0, 0) ELSE NoMessage

\* the second process notifies, returns 0 and ends (its mutex handle closes)
CliNotify ==
    /\ cli.pc = "notify"
    /\ LET m == _notify_existing(os.window) IN
       IF m # NoMessage THEN Post(m) ELSE UNCHANGED queue
    /\ cli' = [cli EXCEPT !.pc = "idle", !.rc = 0, !.found = os.window]
    /\ os' = [os EXCEPT !.mutex = @ \ {"L"}]
    /\ Forget
    /\ UNCHANGED <<pc, app, excess, failed>>
    /\ UNCHANGED <<clicks, probe>>

Next ==
    \/ Start
    \/ RegisterClass
    \/ CreateWindow
    \/ ApplyInitial
    \/ Dispatch
    \/ HookDoubleClick
    \/ LoopExit
    \/ PressHotkey
    \/ MenuCommand
    \/ TrayClick
    \/ CliCommand
    \/ CliLaunch
    \/ CliNotify

Spec == Init /\ [][Next]_vars

\* ============================================ functions examined on their own
\* The coordinator takes no part while one function is examined.
Aside ==
    /\ pc = "aside"
    /\ app = [cfg |-> DefaultConfig]
    /\ os = [icons_shown |-> TRUE]
    /\ queue = <<>>
    /\ handled = Handled("none", NoMessage)
    /\ log = <<>>
    /\ excess = 0
    /\ failed = FALSE
    /\ env = Seen(CalmEnv)
    /\ cli = NoCli

AsideStays == UNCHANGED <<pc, app, os, queue, handled, log, excess, failed, env, cli>>

\* ------------------------------- app.py: DesktopDoubleClickHook, the samples
\* GetDoubleClickTime(), GetSystemMetrics(SM_CXDOUBLECLK), GetSystemMetrics(SM_CYDOUBLECLK)
DoubleTime == 2
DoubleCx == 1
DoubleCy == 1

\* window handles the pointer can be over; 0: WindowFromPoint found none
Hwnds == 0 .. MaxHwnd
Points == [x : 0 .. MaxCoord, y : 0 .. MaxCoord]

\* a classification that adds the two distances up before comparing
_is_double_click_summed(h, now, pt, hwnd) ==
    IF h.last_time <= 0 THEN FALSE
    ELSE IF now - h.last_time > DoubleTime THEN FALSE
    ELSE IF h.last_hwnd = 0 \/ h.last_hwnd # hwnd THEN FALSE
    ELSE LET dx == Abs(pt.x - h.last_point.x)
             dy == Abs(pt.y - h.last_point.y)
         IN dx + dy <= DoubleCx

\* _is_double_click; h holds _last_time, _last_point, _last_hwnd
_is_double_click(h, now, pt, hwnd) ==
    IF h.last_time <= 0 THEN FALSE
    ELSE IF now - h.last_time > DoubleTime THEN FALSE
    ELSE IF h.last_hwnd = 0 \/ h.last_hwnd # hwnd THEN FALSE
    ELSE LET dx == Abs(pt.x - h.last_point.x)
             dy == Abs(pt.y - h.last_point.y)
         IN dx <= DoubleCx /\ dy <= DoubleCy

ClickInit == Aside /\ clicks = NoSample /\ probe = NoProbe

\* winapi.HC_ACTION, WM_MOUSEMOVE, WM_LBUTTONDOWN
HC_ACTION == 0
WM_MOUSEMOVE == 512
WM_LBUTTONDOWN == 513

\* a callback that starts afresh after a double click: the click that was
\* classified as one is not kept as a sample
_hook_proc_forgets_double(h, n_code, w_param, now, pt, hwnd, outcome) ==
    IF n_code = HC_ACTION /\ w_param = WM_LBUTTONDOWN
    THEN LET double == hwnd # 0 /\ _is_double_click(h, now, pt, hwnd)
         IN [called |-> hwnd # 0,
             result |-> double,
             triggered |-> double /\ outcome # "not_blank",
             caught |-> double /\ outcome = "raised",
             sample |-> IF double THEN [h EXCEPT !.last_time = 0]
                        ELSE [last_time |-> now, last_point |-> pt, last_hwnd |-> hwnd,
                              seen |-> 1],
             passed |-> TRUE]
    ELSE [called |-> FALSE, result |-> FALSE, triggered |-> FALSE, caught |-> FALSE,
          sample |-> h, passed |-> TRUE]

\* a callback that keeps the second click of a double click on the desktop
\* to itself: it returns without calling the next hook
_hook_proc_swallows_double(h, n_code, w_param, now, pt, hwnd, outcome) ==
    IF n_code = HC_ACTION /\ w_param = WM_LBUTTONDOWN
    THEN LET double == hwnd # 0 /\ _is_double_click(h, now, pt, hwnd)
         IN [called |-> hwnd # 0,
             result |-> double,
             triggered |-> double /\ outcome # "not_blank",
             caught |-> double /\ outcome = "raised",
             sample |-> [last_time |-> now, last_point |-> pt, last_hwnd |-> hwnd,
                         seen |-> 1],
             passed |-> ~(double /\ outcome # "not_blank")]
    ELSE [called |-> FALSE, result |-> FALSE, triggered |-> FALSE, caught |-> FALSE,
          sample |-> h, passed |-> TRUE]

\* _hook_proc.  On HC_ACTION and WM_LBUTTONDOWN outcome is what follows a
\* double click: _is_desktop_blank answers no ("not_blank"), or the trigger
\* runs and returns ("ran") or raises inside the try ("raised").  passed: the
\* callback ended in CallNextHookEx and returned what that returned.
_hook_proc(h, n_code, w_param, now, pt, hwnd, outcome) ==
    IF n_code = HC_ACTION /\ w_param = WM_LBUTTONDOWN
    THEN LET double == hwnd # 0 /\ _is_double_click(h, now, pt, hwnd)
         IN [called |-> hwnd # 0,
             result |-> double,
             triggered |-> double /\ outcome # "not_blank",
             caught |-> double /\ outcome = "raised",
             sample |-> [last_time |-> now, last_point |-> pt, last_hwnd |-> hwnd,
                         seen |-> 1],
             passed |-> TRUE]
    ELSE [called |-> FALSE, result |-> FALSE, triggered |-> FALSE, caught |-> FALSE,
          sample |-> h, passed |-> TRUE]

\* A left-button-down reaches the callback.  time.monotonic() is positive and
\* never goes back.  streak counts the double clicks in a row, up to 2.
LeftButtonDown ==
    /\ \E now \in 1 .. MaxTime, pt \in Points, hwnd \in Hwnds :
         /\ now >= clicks.last_time
         /\ \E outcome \in IF hwnd # 0 /\ _is_double_click(clicks, now, pt, hwnd)
                           THEN {"not_blank", "ran", "raised"} ELSE {"not_blank"} :
              LET r == _hook_proc(clicks, HC_ACTION, WM_LBUTTONDOWN, now, pt, hwnd, outcome) IN
              /\ probe' = [fn |-> "_is_double_click", before |-> clicks, now |-> now,
                           pt |-> pt, hwnd |-> hwnd, called |-> r.called,
                           result |-> r.result, triggered |-> r.triggered,
                           caught |-> r.caught, passed |-> r.passed,
                           streak |-> IF ~r.result THEN 0
                                      ELSE IF probe.fn = "_is_double_click" /\ probe.streak > 0
                                      THEN 2 ELSE 1]
              /\ clicks' = r.sample
    /\ AsideStays

\* any other event reaches the callback: another message, or a code other
\* than HC_ACTION
OtherHookEvent ==
    /\ \E n_code \in {-1, HC_ACTION}, w_param \in {WM_MOUSEMOVE, WM_LBUTTONDOWN, WM_LBUTTONUP} :
         /\ ~(n_code = HC_ACTION /\ w_param = WM_LBUTTONDOWN)
         /\ LET r == _hook_proc(clicks, n_code, w_param, 0, clicks.last_point, 0, "not_blank") IN
            /\ probe' = [fn |-> "_hook_proc", before |-> clicks, n_code |-> n_code,
                         w_param |-> w_param, triggered |-> r.triggered,
                         passed |-> r.passed]
            /\ clicks' = r.sample
    /\ AsideStays

ClickNext == LeftButtonDown \/ OtherHookEvent

ClickSpec == ClickInit /\ [][ClickNext]_vars

\* ------------------------- app.py: DesktopDoubleClickHook._is_desktop_blank
\* Window classes as GetClassNameW reports them; "" stands for a window whose
\* class name cannot be read (is_window_class then answers False).
ClassNames == {"SysListView32", "WorkerW", "Progman", "Button", ""}

\* A window: its class, its parent (0: GetParent returns none) and what
\* LVM_HITTEST answers at the click point (-1: no item), which only a list
\* view is asked.
WindowsUnder(n) ==
    [class : ClassNames \ {"SysListView32"}, parent : 0 .. n, hit : {-1}]
        \cup [class : {"SysListView32"}, parent : 0 .. n, hit : {-1, 0}]

\* window trees of n windows; a parent is created before its children
RECURSIVE Trees(_)
Trees(n) ==
    IF n = 0 THEN {<<>>}
    ELSE {Append(t, w) : t \in Trees(n - 1), w \in WindowsUnder(n - 1)}

\* winapi.is_window_class
is_window_class(tree, hwnd, name) == tree[hwnd].class # "" /\ tree[hwnd].class = name

\* a classification that does not look at the parent windows
_is_desktop_blank_no_parent(tree, hwnd) ==
    IF hwnd = 0 THEN FALSE
    ELSE IF is_window_class(tree, hwnd, "SysListView32") THEN tree[hwnd].hit = -1
    ELSE is_window_class(tree, hwnd, "WorkerW") \/ is_window_class(tree, hwnd, "Progman")

\* _is_desktop_blank
RECURSIVE _is_desktop_blank(_, _)
_is_desktop_blank(tree, hwnd) ==
    IF hwnd = 0 THEN FALSE
    ELSE IF is_window_class(tree, hwnd, "SysListView32") THEN tree[hwnd].hit = -1
    ELSE IF is_window_class(tree, hwnd, "WorkerW") \/ is_window_class(tree, hwnd, "Progman")
    THEN TRUE
    ELSE IF tree[hwnd].parent # 0 THEN _is_desktop_blank(tree, tree[hwnd].parent)
    ELSE FALSE

BlankInit ==
    /\ Aside
    /\ clicks = NoSample
    /\ \E t \in Trees(MaxWindows) : probe = [fn |-> "windows", tree |-> t]

\* the hook asks about the window under a click
ClassifyWindow ==
    /\ probe.fn \in {"windows", "_is_desktop_blank"}
    /\ \E hwnd \in 1 .. Len(probe.tree) :
         probe' = [fn |-> "_is_desktop_blank", tree |-> probe.tree, hwnd |-> hwnd,
                   result |-> _is_desktop_blank(probe.tree, hwnd)]
    /\ UNCHANGED clicks
    /\ AsideStays

BlankNext == ClassifyWindow

BlankSpec == BlankInit /\ [][BlankNext]_vars

\* ------------------------------------------------ hotkey.py: parse_hotkey
\* words a hotkey text is typed from: modifier names, key names of each kind,
\* a word that names nothing and a missing word
ModWords == {<<"C","t","r","l">>, <<"A","l","t">>, <<"S","h","i","f","t">>, <<"W","i","n">>}
KeyWords == {<<"F","1">>, <<"F","2","4">>, <<"A">>, <<"7">>, <<"T","a","b">>}
Words == ModWords \cup KeyWords \cup {<<"F","o","o">>, <<>>}

RECURSIVE WordLists(_)
WordLists(n) ==
    IF n = 0 THEN {<<>>}
    ELSE WordLists(n - 1) \cup {Append(l, w) : l \in {k \in WordLists(n - 1) : Len(k) = n - 1},
                                              w \in Words}

\* str.lower(), for typing a text in lower case
LowerChar(c) == IF IndexIn(c, UpperLetters) > 0
                THEN LowerLetters[IndexIn(c, UpperLetters)]
                ELSE c
Lower(t) == [i \in DOMAIN t |-> LowerChar(t[i])]

\* how a list of words is typed: letter case, delimiter, blanks around words
Typings == [case : {"typed", "upper", "lower"}, delim : {"+", "-"}, blanks : BOOLEAN]
Plain == [case |-> "typed", delim |-> "+", blanks |-> FALSE]

TypeWord(w, ty) ==
    LET c == IF ty.case = "upper" THEN Upper(w) ELSE IF ty.case = "lower" THEN Lower(w) ELSE w
    IN IF ty.blanks THEN <<" ">> \o c \o <<" ">> ELSE c

RECURSIVE TypeText(_, _)
TypeText(ws, ty) ==
    IF ws = <<>> THEN <<>>
    ELSE IF Len(ws) = 1 THEN TypeWord(ws[1], ty)
    ELSE TypeWord(ws[1], ty) \o <<ty.delim>> \o TypeText(Tail(ws), ty)

ParseInit ==
    /\ Aside
    /\ clicks = NoSample
    /\ \E ws \in WordLists(MaxWords), ty \in Typings :
          probe = [fn |-> "text", words |-> ws, typing |-> ty]

\* the text is parsed as typed plainly and as typed the other way
Parse ==
    /\ probe.fn = "text"
    /\ probe' = [fn |-> "parse_hotkey", words |-> probe.words, typing |-> probe.typing,
                 text |-> TypeText(probe.words, probe.typing),
                 result |-> parse_hotkey(TypeText(probe.words, probe.typing)),
                 plain |-> parse_hotkey(TypeText(probe.words, Plain))]
    /\ UNCHANGED clicks
    /\ AsideStays

ParseNext == Parse

ParseSpec == ParseInit /\ [][ParseNext]_vars

\* ------------------------------------- app.py: _is_fullscreen_foreground
\* monitors as GetMonitorInfoW describes them: the whole rectangle and the work
\* rectangle, which a taskbar at the bottom makes smaller
Monitors ==
    { [rcMonitor |-> Rect(0, 0, 100, 60), rcWork |-> Rect(0, 0, 100, 60)],
      [rcMonitor |-> Rect(0, 0, 100, 60), rcWork |-> Rect(0, 0, 100, 56)],
      [rcMonitor |-> Rect(100, 0, 180, 50), rcWork |-> Rect(100, 0, 180, 45)] }

\* a window at the monitor's top left corner, dw narrower and dh lower than
\* the monitor (wider or higher when negative)
WindowOn(mon, dw, dh) ==
    Rect(mon.rcMonitor.left, mon.rcMonitor.top, mon.rcMonitor.right - dw, mon.rcMonitor.bottom - dh)

\* which of the four queries succeed: all, or all but one
QueryResults ==
    { q \in [hwnd : BOOLEAN, rectOk : BOOLEAN, monitor : BOOLEAN, infoOk : BOOLEAN] :
        Cardinality({f \in {"hwnd", "rectOk", "monitor", "infoOk"} : ~q[f]}) <= 1 }

Foregrounds ==
    { [hwnd |-> q.hwnd, rectOk |-> q.rectOk, rect |-> WindowOn(mon, dw, dh),
       monitor |-> q.monitor, infoOk |-> q.infoOk,
       rcMonitor |-> mon.rcMonitor, rcWork |-> mon.rcWork] :
      q \in QueryResults, mon \in Monitors, dw \in -1 .. MaxDelta, dh \in {-1, 0, 3, 4, 5, 10, 11} }

GuardInit ==
    /\ Aside
    /\ clicks = NoSample
    /\ \E fg \in Foregrounds, t \in 0 .. MaxDelta :
          probe = [fn |-> "foreground", fg |-> fg, tolerance |-> t]

\* _toggle_request asks the guard
AskGuard ==
    /\ probe.fn = "foreground"
    /\ probe' = [fn |-> "_is_fullscreen_foreground", fg |-> probe.fg,
                 tolerance |-> probe.tolerance,
                 result |-> _is_fullscreen_foreground(probe.tolerance, probe.fg)]
    /\ UNCHANGED clicks
    /\ AsideStays

GuardNext == AskGuard

GuardSpec == GuardInit /\ [][GuardNext]_vars

\* ------------------------------------------- config.py: load and save
\* A JSON object, and a dict, is the sequence of its <<key, value>> pairs in
\* insertion order; the keys are distinct.

\* the dataclass fields in declaration order (those of DefaultConfig)
FieldOrder ==
    <<"mode", "hotkey", "suppress_in_fullscreen", "show_tray_icon",
      "fullscreen_tolerance", "show_toggle_toast", "show_first_run_guide">>

\* the methods of Config: names an instance has as attributes
MethodNames == {"normalize", "to_dict", "update_from_dict", "save", "load"}

\* hasattr(self, key) on a Config
hasattr(key) == key \in DOMAIN DefaultConfig \cup {"extras"} \cup MethodNames

\* Config(): the defaults, no extras; attrs are the instance attributes set
\* over the names of methods, raised a TypeError on the way
NewConfig == [fields |-> DefaultConfig, extras |-> <<>>, attrs |-> {}, raised |-> FALSE]

\* d[k] = v on a dict
Put(d, k, v) ==
    IF \E i \in DOMAIN d : d[i][1] = k
    THEN [i \in DOMAIN d |-> IF d[i][1] = k THEN <<k, v>> ELSE d[i]]
    ELSE Append(d, <<k, v>>)

\* d.update(e)
RECURSIVE Update(_, _)
Update(d, e) == IF e = <<>> THEN d ELSE Update(Put(d, Head(e)[1], Head(e)[2]), Tail(e))

\* the loop of update_from_dict: setattr for a name the object has, the
\* extras dict for any other
RECURSIVE SetAll(_, _)
SetAll(cfg, data) ==
    IF data = <<>> THEN cfg
    ELSE LET key == Head(data)[1]
             value == Head(data)[2]
             next == IF key \in DOMAIN DefaultConfig
                     THEN [cfg EXCEPT !.fields[key] = value]
                     ELSE IF key = "extras" THEN [cfg EXCEPT !.extras = value]
                     ELSE IF hasattr(key) THEN [cfg EXCEPT !.attrs = @ \cup {key}]
                     ELSE [cfg EXCEPT !.extras = Put(@, key, value)]
         IN SetAll(next, Tail(data))

\* self.normalize() on the object: an attribute set over the method is called
\* instead, and is not callable
NormalizeObject(cfg) ==
    IF cfg.raised THEN cfg
    ELSE IF "normalize" \in cfg.attrs THEN [cfg EXCEPT !.raised = TRUE]
    ELSE [cfg EXCEPT !.fields = normalize(@)]

\* Config.update_from_dict
update_from_dict(cfg, data) == NormalizeObject(SetAll(cfg, data))

\* Config.to_dict: asdict without "extras", updated with the extras
to_dict(cfg) ==
    Update([i \in DOMAIN FieldOrder |-> <<FieldOrder[i], cfg.fields[FieldOrder[i]]>>],
           cfg.extras)

\* Config.save: the object json.dump writes, or a TypeError when save or
\* to_dict is an attribute set over the method
save(cfg) ==
    IF cfg.raised \/ "save" \in cfg.attrs \/ "to_dict" \in cfg.attrs
    THEN [raised |-> TRUE, file |-> <<>>]
    ELSE [raised |-> FALSE, file |-> to_dict(cfg)]

\* Config.load of a file holding a JSON object
load(data) == NormalizeObject(update_from_dict(NewConfig, data))

\* The stored objects: up to MaxKeys members, among them settings in and out
\* of their ranges, members Config does not know, and members named as
\* attributes of the object are.
StoredObjects ==
    LET Members == ({"mode"} \X {"Hotkey", "Tray"})
                     \cup ({"fullscreen_tolerance"} \X {3, 70})
                     \cup ({"theme"} \X {"dark"})
                     \cup ({"lang"} \X {"en", "de"})
                     \cup ({"load", "save", "normalize"} \X {1})
                     \cup ({"extras"} \X {<< <<"inner", "x">> >>})
    IN UNION {{d \in [1 .. n -> Members] :
                  \A i, j \in 1 .. n : i # j => d[i][1] # d[j][1]} : n \in 0 .. MaxKeys}

ConfigInit ==
    /\ Aside
    /\ clicks = NoSample
    /\ \E d \in StoredObjects : probe = [fn |-> "stored", data |-> d]

\* the program starts on the stored object and saves its configuration; the
\* next start loads what was saved
RoundTrip ==
    /\ probe.fn = "stored"
    /\ LET loaded == load(probe.data)
           saved == save(loaded)
       IN probe' = [fn |-> "round_trip", data |-> probe.data, loaded |-> loaded,
                    saved |-> saved,
                    reloaded |-> IF saved.raised THEN NewConfig ELSE load(saved.file)]
    /\ UNCHANGED clicks
    /\ AsideStays

ConfigSpec == ConfigInit /\ [][RoundTrip]_vars

\* ------------------------------------------------- the update-check worker
\* The update check examined on its own.  app holds the fields the requests
\* and the worker use, os the threads that are alive and how many were ever
\* started, log what worker threads wrote and which OS calls they made, probe
\* the last call of _start_update_check.  The requests all run on the main
\* thread; a worker runs _check_updates one step at a time beside it.
MaxThreads == 3
Tags == {"v1", "v2"}
NoThread == 0
NoTag == ""

IsAlive(o, t) == \E w \in o.workers : w.id = t

Note(l, e) == IF Has(l, e) THEN l ELSE Append(l, e)

\* a request that starts a thread whether or not the last one is alive
_start_update_check_unguarded(a, o) ==
    LET t == o.started + 1
    IN [app |-> [a EXCEPT !.update_thread = t],
        os |-> [workers |-> o.workers \cup {[id |-> t, pc |-> "fetch", tag |-> NoTag]},
                started |-> t]]

\* _start_update_check: Thread.is_alive() holds from start() until the
\* worker function has returned
_start_update_check(a, o) ==
    IF a.update_thread # NoThread /\ IsAlive(o, a.update_thread)
    THEN [app |-> a, os |-> o]
    ELSE LET t == o.started + 1
         IN [app |-> [a EXCEPT !.update_thread = t],
             os |-> [workers |-> o.workers \cup {[id |-> t, pc |-> "fetch", tag |-> NoTag]},
                     started |-> t]]

UpdateInit ==
    /\ pc = "aside"
    /\ \E cu \in BOOLEAN, st \in BOOLEAN, tv \in BOOLEAN :
         app = [check_updates |-> cu, show_toggle_toast |-> st, tray_visible |-> tv,
                update_info |-> NoTag, update_thread |-> NoThread]
    /\ os = [workers |-> {}, started |-> 0]
    /\ queue = <<>>
    /\ handled = Handled("none", NoMessage)
    /\ log = <<>>
    /\ excess = 0
    /\ failed = FALSE
    /\ env = Seen(CalmEnv)
    /\ cli = NoCli
    /\ clicks = NoSample
    /\ probe = [fn |-> "none", refused |-> FALSE]

UpdateStays == UNCHANGED <<pc, queue, handled, excess, failed, env, cli, clicks>>

\* the main thread calls _start_update_check with the fields a
Request(a) ==
    LET r == _start_update_check(a, os) IN
    /\ r.os.started <= MaxThreads
    /\ app' = r.app
    /\ os' = r.os
    /\ probe' = [fn |-> "_start_update_check",
                 alive |-> app.update_thread # NoThread /\ IsAlive(os, app.update_thread),
                 started |-> r.os.started - os.started,
                 refused |-> probe.refused
                             \/ (app.update_thread # NoThread /\ IsAlive(os, app.update_thread))]

\* _apply_config reaches its last lines (a mode command, or the start of run)
ApplyConfigRequest ==
    /\ app.check_updates
    /\ Request(app)
    /\ UNCHANGED log
    /\ UpdateStays

\* _reset_config, confirmed: Config() has check_updates and show_toggle_toast
\* set, _persist_config shows the tray icon, _apply_config follows (when a
\* tray call fails the handler ends before it asks for a check)
ResetRequest ==
    /\ Request([app EXCEPT !.check_updates = TRUE, !.show_toggle_toast = TRUE,
                           !.tray_visible = TRUE])
    /\ UNCHANGED log
    /\ UpdateStays

\* the CHECK_UPDATE menu command: with a release known it opens the page,
\* otherwise it flips check_updates and, when that is now set, asks for a check
CheckUpdateCommand ==
    /\ IF app.update_info # NoTag
       THEN /\ probe' = [fn |-> "startfile", refused |-> probe.refused]
            /\ UNCHANGED <<app, os>>
       ELSE IF ~app.check_updates
            THEN Request([app EXCEPT !.check_updates = TRUE])
            ELSE /\ app' = [app EXCEPT !.check_updates = FALSE]
                 /\ UNCHANGED <<os, probe>>
    /\ UNCHANGED log
    /\ UpdateStays

\* the TOGGLE_TOAST menu command
ToggleToastCommand ==
    /\ app' = [app EXCEPT !.show_toggle_toast = ~@]
    /\ UNCHANGED <<os, log, probe>>
    /\ UpdateStays

Moved(w, to, tag) == (os.workers \ {w}) \cup {[id |-> w.id, pc |-> to, tag |-> tag]}

\* _check_updates, the request: a URLError, a body that is not JSON, a
\* document without tag_name or html_url, or a release
WorkerFetch ==
    /\ \E w \in os.workers :
         /\ w.pc = "fetch"
         /\ \/ os' = [os EXCEPT !.workers = Moved(w, "end", NoTag)]
            \/ \E tag \in Tags : os' = [os EXCEPT !.workers = Moved(w, "compare", tag)]
    /\ UNCHANGED <<app, log, probe>>
    /\ UpdateStays

\* _check_updates, a release was found: _update_info is replaced when the
\* tag differs
WorkerPublish ==
    /\ \E w \in os.workers :
         /\ w.pc = "compare"
         /\ IF app.update_info # w.tag
            THEN /\ app' = [app EXCEPT !.update_info = w.tag]
                 /\ log' = Note(log, "_update_info")
                 /\ os' = [os EXCEPT !.workers = Moved(w, "toast", w.tag)]
            ELSE /\ os' = [os EXCEPT !.workers = Moved(w, "end", w.tag)]
                 /\ UNCHANGED <<app, log>>
    /\ UNCHANGED probe
    /\ UpdateStays

\* _check_updates, after the replacement: with show_toggle_toast set the
\* worker itself runs _show_balloon, which with a tray icon writes the
\* notification data and calls Shell_NotifyIconW(NIM_MODIFY); a failure of
\* that call is caught by worker()
WorkerToast ==
    /\ \E w \in os.workers :
         /\ w.pc = "toast"
         /\ os' = [os EXCEPT !.workers = Moved(w, "end", w.tag)]
    /\ log' = IF app.show_toggle_toast /\ app.tray_visible
              THEN Note(Note(log, "_tray_data"), "NIM_MODIFY")
              ELSE log
    /\ UNCHANGED <<app, probe>>
    /\ UpdateStays

\* worker() returns: the thread is no longer alive
WorkerExit ==
    /\ \E w \in os.workers :
         /\ w.pc = "end"
         /\ os' = [os EXCEPT !.workers = @ \ {w}]
    /\ UNCHANGED <<app, log, probe>>
    /\ UpdateStays

UpdateNext ==
    \/ ApplyConfigRequest
    \/ ResetRequest
    \/ CheckUpdateCommand
    \/ ToggleToastCommand
    \/ WorkerFetch
    \/ WorkerPublish
    \/ WorkerToast
    \/ WorkerExit

UpdateSpec == UpdateInit /\ [][UpdateNext]_vars

\* ================================================================ claims
ToggleCommand == "SendMessage:0x7402"

\* the fullscreen guard as the handler that just ran saw it
GuardHeld(cfg) ==
    /\ cfg.mode = "DesktopDoubleClick"
    /\ cfg.suppress_in_fullscreen
    /\ _is_fullscreen_foreground(cfg.fullscreen_tolerance, env.fg)

\* C1: with no OS call having failed and a hotkey text that parses, the idle
\* application in DesktopDoubleClick mode has the hotkey unregistered and the
\* hook installed, and in Hotkey mode has the hook uninstalled and the hotkey
\* registered; the two triggers are never armed together.
C1_ModeExclusive ==
    (pc = "loop" /\ app.running /\ ~failed /\ parse_hotkey(app.cfg.hotkey).ok) =>
        /\ app.cfg.mode = "DesktopDoubleClick" => (os.hotkeys = {} /\ os.hooks = 1)
        /\ app.cfg.mode = "Hotkey" => (os.hooks = 0 /\ os.hotkeys # {})
        /\ ~(os.hotkeys # {} /\ os.hooks > 0)

\* C2: a handler sends the shell's toggle command exactly once when it made
\* a toggle request that was not suppressed and the desktop host was found,
\* and not at all otherwise, whatever the source of the request; so commands
\* sent and such requests stay equal in number.
C2_ToggleExactlyOnce ==
    /\ excess = 0
    /\ CountOf(log, ToggleCommand) =
          IF Has(log, "_toggle_request") /\ ~GuardHeld(app.cfg) /\ env.host # "none"
          THEN 1 ELSE 0

\* C2 witness: a desktop double click, caught by the hook while the host
\* window is WorkerW, sent the command once
C2_Witness ==
    /\ handled.src = "hook"
    /\ env.host = "WorkerW"
    /\ CountOf(log, ToggleCommand) = 1
    /\ excess = 0

\* C3: after a toggle request that completed (command sent, no failure
\* reported) with the icon list window found, the cached _icons_visible
\* equals the visibility of the icon list.
C3_CacheMatchesDesktop ==
    (Has(log, ToggleCommand) /\ ~Has(log, "MessageBox:toggle_failed") /\ env.listview)
        => app.icons_visible = os.icons_shown

\* C4: a WM_HOTKEY message always toggles (the host window being there),
\* whatever the mode and the suppress_in_fullscreen setting.
C4_HotkeyNeverSuppressed ==
    (handled.src = "message" /\ handled.msg = WM_HOTKEY /\ env.host # "none")
        => CountOf(log, ToggleCommand) = 1

\* C5: a toggle request made in DesktopDoubleClick mode with
\* suppress_in_fullscreen on and the fullscreen guard true is dropped: no
\* toggle command, icons and cached visibility unchanged, tooltip not
\* updated, no toast and no message box.
C5_SuppressedRequestDropped ==
    [][(Has(log', "_toggle_request") /\ GuardHeld(app.cfg)')
          => /\ ~Has(log', ToggleCommand)
             /\ os'.icons_shown = os.icons_shown
             /\ app'.icons_visible = app.icons_visible
             /\ app'.tray_tip = app.tray_tip
             /\ os'.tray = os.tray
             /\ ~Has(log', "NIM_MODIFY")
             /\ ~Has(log', "balloon")
             /\ ~Has(log', "MessageBox:toggle_failed")]_vars

\* C5 witness: a desktop double click arrived with the guard true, the host
\* window there and the toast setting on
C5_Witness ==
    /\ handled.src = "hook"
    /\ Has(log, "_toggle_request")
    /\ GuardHeld(app.cfg)
    /\ env.host # "none"
    /\ app.cfg.show_toggle_toast

\* C6: the message that the command line's toggle posts is handled by the
\* running instance as a toggle request.
C6_CliToggleHandled ==
    (handled.src = "message" /\ handled.msg = WM_USER_TOGGLE)
        => Has(log, "_toggle_request")

\* C7: when run() returns right after the exit message of the command line
\* was handled, the tray icon is removed, the hook uninstalled and the
\* mutex released.
C7_ExitReleasesAll ==
    [][(handled.src = "message" /\ handled.msg = ExitMsgId /\ pc' = "done")
          => /\ os'.tray = "none"
             /\ os'.hooks = 0
             /\ "A" \notin os'.mutex]_vars

\* C8: a second process that found the mutex taken always forwards a command
\* to the first instance before it exits with 0, and never registers a class
\* or creates a window.
C8_SecondAlwaysForwards ==
    [][(cli.pc = "notify" /\ cli'.pc = "idle")
          => /\ cli'.rc = 0
             /\ queue' = Append(queue, Message(ToggleMsgId, 0, 0))
             /\ os'.class = os.class
             /\ os'.window = os.window]_vars

\* C9: the message a second launch without arguments sends is handled by the
\* first instance without changing the visibility of the icons.
C9_NotifyKeepsVisibility ==
    [][(handled'.src = "message" /\ handled'.msg = ToggleMsgId)
          => os'.icons_shown = os.icons_shown]_vars

\* C10: main with argv[0] toggle or exit returns 0 exactly when the
\* coordinator window was found and 1 otherwise, and never constructs the
\* coordinator, acquires the mutex or starts a message loop.
C10_CliExitStatus ==
    cli.argv \in {"toggle", "exit"} =>
        /\ cli.rc \in {0, 1}
        /\ cli.rc = 0 <=> cli.found
        /\ ~cli.constructed
        /\ "L" \notin os.mutex
        /\ cli.pc = "idle"

\* C10 witness: main(["exit"]) ran with no coordinator window and returned 1
C10_Witness ==
    /\ cli.argv = "exit"
    /\ ~cli.found
    /\ cli.rc = 1

\* C11: a left-button-down on a window is classified as a double click
\* exactly when a previous sample exists, the time since it is at most the
\* double-click time, the horizontal distance at most the double-click width,
\* the vertical distance at most the double-click height, and both clicks
\* were on the same window.
C11_DoubleClickClassified ==
    (probe.fn = "_is_double_click" /\ probe.called) =>
        (probe.result <=>
            /\ probe.before.seen > 0
            /\ probe.now - probe.before.last_time <= DoubleTime
            /\ Abs(probe.pt.x - probe.before.last_point.x) <= DoubleCx
            /\ Abs(probe.pt.y - probe.before.last_point.y) <= DoubleCy
            /\ probe.hwnd = probe.before.last_hwnd)

\* C11 witness: a second click on the same window, exactly the double-click
\* time later and exactly the double-click width and height away, was
\* classified as a double click
C11_Witness ==
    /\ probe.fn = "_is_double_click"
    /\ probe.result
    /\ probe.now - probe.before.last_time = DoubleTime
    /\ Abs(probe.pt.x - probe.before.last_point.x) = DoubleCx
    /\ Abs(probe.pt.y - probe.before.last_point.y) = DoubleCy

\* the classification the specification gives for window w of tree t
RECURSIVE BlankReference(_, _)
BlankReference(t, w) ==
    CASE t[w].class \in {"WorkerW", "Progman"} -> TRUE
      [] t[w].class = "SysListView32" -> t[w].hit = -1
      [] OTHER -> IF t[w].parent = 0 THEN FALSE ELSE BlankReference(t, t[w].parent)

\* C12: over every window tree of the bounded size the blank-space
\* classification of the clicked window is the reference: WorkerW and Progman
\* are blank, a SysListView32 is blank iff the hit test reports no item, any
\* other window is what its parent is, and a window without parent is not blank.
C12_BlankAsReference ==
    probe.fn = "_is_desktop_blank" =>
        (probe.result <=> BlankReference(probe.tree, probe.hwnd))

\* C12 witness: a click on a window of another class whose grandparent is
\* Progman was classified as blank
C12_Witness ==
    /\ probe.fn = "_is_desktop_blank"
    /\ probe.result
    /\ probe.tree[probe.hwnd].class = "Button"
    /\ probe.tree[probe.hwnd].parent # 0
    /\ probe.tree[probe.tree[probe.hwnd].parent].class = ""
    /\ probe.tree[probe.tree[probe.hwnd].parent].parent # 0

\* the modifier and key codes the specification's grammar gives the words
WordModifier(w) ==
    CASE w = <<"C","t","r","l">> -> MOD_CONTROL
      [] w = <<"A","l","t">> -> MOD_ALT
      [] w = <<"S","h","i","f","t">> -> MOD_SHIFT
      [] w = <<"W","i","n">> -> MOD_WIN
WordKey(w) ==
    CASE w = <<"F","1">> -> 112
      [] w = <<"F","2","4">> -> 135
      [] w = <<"A">> -> 65
      [] w = <<"7">> -> 55
      [] w = <<"T","a","b">> -> 9
RECURSIVE SumOf(_)
SumOf(S) == IF S = {} THEN 0 ELSE LET x == CHOOSE x \in S : TRUE IN x + SumOf(S \ {x})
KeysIn(ws) == {i \in DOMAIN ws : ws[i] \in KeyWords}
ModifiersIn(ws) == {WordModifier(ws[i]) : i \in {j \in DOMAIN ws : ws[j] \in ModWords}}
WellFormed(ws) ==
    /\ \A i \in DOMAIN ws : ws[i] \in ModWords \cup KeyWords
    /\ Cardinality(KeysIn(ws)) = 1

\* C13: a text whose tokens are modifier names and exactly one known key name
\* parses to a binding with exactly the modifiers present and that key, and
\* the modifiers and key are the same however the text is typed: in any letter
\* case, with '+' or '-' between the tokens.
C13_ParseKeepsModifiers ==
    (probe.fn = "parse_hotkey" /\ WellFormed(probe.words)) =>
        /\ probe.result.ok
        /\ probe.result.modifiers = SumOf(ModifiersIn(probe.words))
        /\ probe.result.vk = WordKey(probe.words[CHOOSE i \in KeysIn(probe.words) : TRUE])
        /\ probe.plain.ok
        /\ probe.plain.modifiers = probe.result.modifiers
        /\ probe.plain.vk = probe.result.vk

\* C13 witness: two modifiers and F24, typed in lower case with '-' between,
\* parsed to a binding
C13_Witness ==
    /\ probe.fn = "parse_hotkey"
    /\ probe.typing.case = "lower" /\ probe.typing.delim = "-"
    /\ Cardinality(ModifiersIn(probe.words)) = 2
    /\ probe.result.ok
    /\ probe.result.vk = 135

\* the four kinds of text the specification rejects; a missing word between
\* two delimiters is no token
Tokens(ws) == SelectSeq(ws, LAMBDA w : w # <<>>)
NonModifiers(ws) == {i \in DOMAIN Tokens(ws) : Tokens(ws)[i] \notin ModWords}
Rejected(ws, text) ==
    \/ text = <<>>
    \/ NonModifiers(ws) = {}
    \/ Cardinality(NonModifiers(ws)) > 1
    \/ \E i \in DOMAIN ws : ws[i] = <<"F","o","o">>

\* C14: a text that is empty, has no key token, has more than one or holds an
\* unrecognized token is rejected with a parse error and no binding, and the
\* error carries the offending text: the text, or the token not recognized.
C14_ErrorsCarryText ==
    (probe.fn = "parse_hotkey" /\ Rejected(probe.words, probe.text)) =>
        /\ ~probe.result.ok
        /\ probe.result.raw = <<>>
        /\ \/ probe.result.carried = probe.text
           \/ probe.result.carried
                 = TypeWord(<<"F","o","o">>, [probe.typing EXCEPT !.blanks = FALSE])

Width(r) == r.right - r.left
Height(r) == r.bottom - r.top

\* C15: the guard is true exactly when a foreground window exists, its
\* rectangle and its monitor's geometry were obtained, and the window's width
\* and its height each differ from the monitor's by at most the tolerance;
\* any failed query gives false.  A window 10 smaller than the monitor is not
\* suppressed at tolerance 3 and is at tolerance 10.
C15_GuardWithinTolerance ==
    probe.fn = "_is_fullscreen_foreground" =>
        (probe.result <=>
            /\ probe.fg.hwnd /\ probe.fg.rectOk /\ probe.fg.monitor /\ probe.fg.infoOk
            /\ Abs(Width(probe.fg.rect) - Width(probe.fg.rcMonitor)) <= probe.tolerance
            /\ Abs(Height(probe.fg.rect) - Height(probe.fg.rcMonitor)) <= probe.tolerance)

\* C15 witness: a window 10 narrower and 10 lower than its monitor was taken
\* as fullscreen at tolerance 10
C15_Witness ==
    /\ probe.fn = "_is_fullscreen_foreground"
    /\ probe.tolerance = 10
    /\ Width(probe.fg.rcMonitor) - Width(probe.fg.rect) = 10
    /\ Height(probe.fg.rcMonitor) - Height(probe.fg.rect) = 10
    /\ probe.result

\* C16: with tolerance 0 a foreground window whose rectangle equals the work
\* rectangle of its monitor is taken as fullscreen, whatever the monitor.
C16_WorkAreaIsFullscreen ==
    (/\ probe.fn = "_is_fullscreen_foreground"
     /\ probe.tolerance = 0
     /\ probe.fg.hwnd /\ probe.fg.rectOk /\ probe.fg.monitor /\ probe.fg.infoOk
     /\ probe.fg.rect = probe.fg.rcWork)
        => probe.result

\* C17: when the desktop host window cannot be found during a toggle request
\* the toggle is abandoned (no command sent, icons and cached visibility as
\* before), the user is warned, and the process keeps running with mode, hook
\* and hotkey as they were; a request made when the host window is found
\* sends the command, whatever failed before.
C17_HostMissingAbandons ==
    [][/\ (Has(log', "_toggle_request") /\ ~GuardHeld(app.cfg)' /\ env'.host = "none")
             => /\ ~Has(log', ToggleCommand)
                /\ os'.icons_shown = os.icons_shown
                /\ app'.icons_visible = app.icons_visible
                /\ Has(log', "MessageBox:toggle_failed")
                /\ pc' = pc /\ app'.running = app.running
                /\ app'.cfg = app.cfg
                /\ app'.hook_handle = app.hook_handle /\ os'.hooks = os.hooks
                /\ app'.hotkey = app.hotkey /\ os'.hotkeys = os.hotkeys
       /\ (Has(log', "_toggle_request") /\ ~GuardHeld(app.cfg)' /\ env'.host # "none")
             => Has(log', ToggleCommand)]_vars

\* C17 witness: a request that did not find the host window ended with the
\* warning, the application still in its loop
C17_Witness ==
    /\ Has(log, "FindWindowW:failed")
    /\ Has(log, "MessageBox:toggle_failed")
    /\ pc = "loop" /\ app.running

\* C18: with the toast setting on, every toggle that completed (command sent,
\* no failure reported) shows the balloon notification, also when the tray
\* icon is configured off.
C18_ToastOnEveryToggle ==
    (Has(log, ToggleCommand) /\ ~Has(log, "MessageBox:toggle_failed")
        /\ app.cfg.show_toggle_toast)
        => Has(log, "balloon")

Selecting(m, n) ==
    /\ handled'.src = "message" /\ handled'.msg = WM_COMMAND
    /\ handled'.wparam = (IF m = "Hotkey" THEN MenuMODE_HOTKEY ELSE MenuMODE_DBL)
    /\ app.cfg.mode = n

\* C21: selecting the mode that is already active issues no RegisterHotKey or
\* UnregisterHotKey call and no SetWindowsHookExW or UnhookWindowsHookEx
\* call, and leaves the recorded binding and the hook handle as they were.
C21_SameModeNoOp ==
    [][(Selecting("Hotkey", "Hotkey") \/ Selecting("DesktopDoubleClick", "DesktopDoubleClick"))
          => /\ ~Has(log', "RegisterHotKey") /\ ~Has(log', "RegisterHotKey:failed")
             /\ ~Has(log', "UnregisterHotKey") /\ ~Has(log', "UnregisterHotKey:failed")
             /\ ~Has(log', "SetWindowsHookExW") /\ ~Has(log', "SetWindowsHookExW:failed")
             /\ ~Has(log', "UnhookWindowsHookEx")
             /\ app'.hotkey = app.hotkey
             /\ app'.hook_handle = app.hook_handle]_vars

\* C23: within one configuration application that changes the mode, the hook
\* is uninstalled before the hotkey is registered when the new mode is Hotkey,
\* and the hotkey is unregistered, and stays so, before the hook is installed
\* when the new mode is DesktopDoubleClick.
C23_TearDownBeforeStandUp ==
    [][/\ (Selecting("Hotkey", "DesktopDoubleClick") /\ os.hooks > 0
              /\ Has(log', "RegisterHotKey"))
             => /\ Has(log', "UnhookWindowsHookEx")
                /\ Index(log', "UnhookWindowsHookEx") < Index(log', "RegisterHotKey")
       /\ (Selecting("DesktopDoubleClick", "Hotkey") /\ os.hotkeys # {}
              /\ Has(log', "SetWindowsHookExW"))
             => /\ Has(log', "UnregisterHotKey")
                /\ Index(log', "UnregisterHotKey") < Index(log', "SetWindowsHookExW")
                /\ os'.hotkeys = {}]_vars

\* the step applies the configuration again, from a message, with the mode
\* it had
ReApplied ==
    /\ handled'.src = "message"
    /\ Has(log', "_register_hotkey")
    /\ app'.cfg.mode = app.cfg.mode

HookUntouched ==
    /\ ~Has(log', "SetWindowsHookExW") /\ ~Has(log', "SetWindowsHookExW:failed")
    /\ ~Has(log', "UnhookWindowsHookEx")
    /\ app'.hook_handle = app.hook_handle
    /\ os'.hooks = os.hooks

C25_HookReleasedOnExit ==
    /\ os.hooks <= 1
    /\ pc = "done" => (os.hooks = 0 /\ "A" \notin os.mutex)

\* C26: RegisterHotKey is never called while a binding is registered: in a
\* step that begins with a binding registered, every RegisterHotKey call
\* comes after a successful UnregisterHotKey; and at most one binding is
\* registered at any time.
C26_UnregisterBeforeRegister ==
    [][/\ (os.hotkeys # {} /\ Has(log', "RegisterHotKey"))
             => /\ Has(log', "UnregisterHotKey")
                /\ Index(log', "UnregisterHotKey") < Index(log', "RegisterHotKey")
       /\ (os.hotkeys # {} /\ Has(log', "RegisterHotKey:failed"))
             => /\ Has(log', "UnregisterHotKey")
                /\ Index(log', "UnregisterHotKey") < Index(log', "RegisterHotKey:failed")
       /\ Cardinality(os'.hotkeys) <= 1]_vars

\* C26 witness: a reset replaced a registered binding by another one
C26_Witness ==
    /\ handled.src = "message" /\ handled.msg = WM_COMMAND /\ handled.wparam = MenuRESET
    /\ Has(log, "UnregisterHotKey") /\ Has(log, "RegisterHotKey")
    /\ os.hotkeys = {Combo(app.hotkey)}
    /\ app.hotkey.raw = DefaultHotkeyText

\* C30: the hook callback performs no toggle itself: when it has returned,
\* no toggle command was sent and no message box shown from inside it.
C30_HookOnlyEnqueues ==
    handled.src = "hook"
        => /\ ~Has(log, ToggleCommand)
           /\ ~Has(log, "MessageBox:toggle_failed")
           /\ ~Has(log, "_toggle_request")

\* C27: after every left-button-down the sample is the click just seen (its
\* time, point and window), whether or not it was classified as a double
\* click, whether or not it triggered a toggle or the trigger raised, and
\* also when no window was under the point.
C27_SampleIsLastClick ==
    probe.fn = "_is_double_click"
        => /\ clicks.last_time = probe.now
           /\ clicks.last_point = probe.pt
           /\ clicks.last_hwnd = probe.hwnd

\* C27 witness: a third click was classified as a double click against the
\* second, itself a double click, and triggered
C27_Witness ==
    /\ probe.fn = "_is_double_click"
    /\ probe.streak = 2
    /\ probe.triggered
    /\ clicks.last_time = probe.now

\* a WorkerW or Progman window is the clicked window w or above it
RECURSIVE HostAbove(_, _)
HostAbove(t, w) ==
    \/ t[w].class \in {"WorkerW", "Progman"}
    \/ t[w].parent # 0 /\ HostAbove(t, t[w].parent)

\* C28: a click on a window that has no WorkerW or Progman window in its
\* parent chain, itself included, is not blank desktop space; a SysListView32
\* of an ordinary application is not, whatever its hit test reports.
C28_BlankOnlyOnDesktop ==
    (probe.fn = "_is_desktop_blank" /\ ~HostAbove(probe.tree, probe.hwnd))
        => ~probe.result

\* the class name of a window the classification looks at cannot be read
RECURSIVE QueryFailed(_, _)
QueryFailed(t, w) ==
    \/ t[w].class = ""
    \/ /\ t[w].class \notin {"SysListView32", "WorkerW", "Progman"}
       /\ t[w].parent # 0
       /\ QueryFailed(t, t[w].parent)

\* C29: when the class-name query fails for a window visited during the
\* classification, the click is not blank desktop space, whatever the
\* ancestors of that window are.
C29_QueryFailureNotBlank ==
    (probe.fn = "_is_desktop_blank" /\ QueryFailed(probe.tree, probe.hwnd))
        => ~probe.result

\* the members of a stored object that are no setting of Config
Unrecognized(d) == {i \in DOMAIN d : d[i][1] \notin DOMAIN DefaultConfig \cup {"extras"}}

\* C22: for every stored object, load followed by save succeeds and writes
\* every member Config does not recognize with its key and value, at the top
\* level; and loading what was saved gives a configuration equal to the one
\* that was saved (dataclass equality: the settings and the extras).
C22_RoundTrip ==
    probe.fn = "round_trip"
        => /\ ~probe.loaded.raised /\ ~probe.saved.raised
           /\ \A i \in Unrecognized(probe.data) :
                 \E j \in DOMAIN probe.saved.file : probe.saved.file[j] = probe.data[i]
           /\ ~probe.reloaded.raised
           /\ probe.reloaded.fields = probe.loaded.fields
           /\ probe.reloaded.extras = probe.loaded.extras

\* C33: run() is ended by an exception only when the window class could not
\* be registered or the window not created; and no exception leaves the
\* handling of a message, so no handler is cut short by a failed OS call.
C33_OnlyStartupIsFatal ==
    /\ app.rc = "raised" => (~app.class_atom \/ ~app.hwnd)
    /\ handled.src = "message" => ~Has(log, "callback:exception")

\* C34: while the window exists, _hotkey is set exactly when a binding is
\* registered with the OS, and it then is that binding.
C34_HotkeyRecordAccurate ==
    os.window
        => /\ app.hotkey # NoHotkey <=> os.hotkeys # {}
           /\ app.hotkey # NoHotkey => os.hotkeys = {Combo(app.hotkey)}

\* C35: a request in which the toggle command was sent never shows the
\* toggle-failed warning.
C35_WarningOnlyWhenAbandoned ==
    Has(log, ToggleCommand) => ~Has(log, "MessageBox:toggle_failed")

C32_OneWorkerAtATime ==
    /\ Cardinality(os.workers) <= 1
    /\ probe.fn = "_start_update_check"
         => probe.started = (IF probe.alive THEN 0 ELSE 1)

\* C32 witness: a request was refused while the worker was alive, the worker
\* finished, and the request after that started the second worker
C32_Witness ==
    /\ probe.fn = "_start_update_check"
    /\ probe.refused
    /\ ~probe.alive
    /\ probe.started = 1
    /\ os.started = 2

\* C31: the only shared state a worker thread writes is _update_info, and
\* it makes no tray or notification OS call.
C31_WorkerOnlyPublishes ==
    \A i \in DOMAIN log : log[i] = "_update_info"

====
